---- MODULE Spec2Model ----
(***************************************************************************)
(* The interpreter example of golang-design-pattern: Parser.Parse builds a *)
(* syntax tree of ValNode / AddNode / MinNode from a space separated       *)
(* expression, Node.Interpret evaluates it.                                *)
(*                                                                         *)
(* A string is a sequence of one-character strings, a token is a string,   *)
(* a Node reference is an index into heap (NIL is the nil interface).      *)
(***************************************************************************)
EXTENDS Integers, Sequences, FiniteSets, TLC

(* ------------------------------ bounds -------------------------------- *)

\* tokens handed to one Parser over its lifetime
MaxTokens == 5

\* Parse calls made on one Parser
MaxCalls == 2

\* Interpret calls made on one root
MaxEvals == 2

(* ------------------------------ strings ------------------------------- *)

NIL == 0

SP == " "

Digits == <<"0", "1", "2", "3", "4", "5", "6", "7", "8", "9">>

IsDigit(c) == \E i \in 1..10 : Digits[i] = c

DigitVal(c) == (CHOOSE i \in 1..10 : Digits[i] = c) - 1

\* the segments the input strings are made of: two integer literals, the two
\* operator symbols, a segment that is neither, and the empty segment
Segments == { <<"1">>, <<"-", "2">>, <<"+">>, <<"-">>, <<"a">>, <<>> }

RECURSIVE Join(_)
Join(ts) ==
    IF Len(ts) = 1 THEN ts[1]
    ELSE ts[1] \o <<SP>> \o Join(Tail(ts))

RECURSIVE SeqsUpTo(_)
SeqsUpTo(n) ==
    IF n = 0 THEN { <<>> }
    ELSE LET shorter == SeqsUpTo(n - 1)
         IN  shorter \cup { Append(s, t) : s \in shorter, t \in Segments }

\* the expression strings of at most n segments, "" among them
Inputs(n) == { Join(ts) : ts \in SeqsUpTo(n) \ { <<>> } }

\* strings.Split(s, " "): one element per separator plus one, empty ones kept
RECURSIVE SplitFrom(_, _, _)
SplitFrom(s, i, cur) ==
    IF i > Len(s) THEN <<cur>>
    ELSE IF s[i] = SP THEN <<cur>> \o SplitFrom(s, i + 1, <<>>)
    ELSE SplitFrom(s, i + 1, Append(cur, s[i]))

Split(s) == SplitFrom(s, 1, <<>>)

\* strconv.Atoi: optional sign, then one or more decimal digits; ok is FALSE
\* (and the value 0) for anything else
RECURSIVE AtoiDigits(_, _, _)
AtoiDigits(s, i, n) ==
    IF i > Len(s) THEN [ok |-> TRUE, val |-> n]
    ELSE IF ~IsDigit(s[i]) THEN [ok |-> FALSE, val |-> 0]
    ELSE AtoiDigits(s, i + 1, n * 10 + DigitVal(s[i]))

Atoi(s) ==
    IF Len(s) = 0 THEN [ok |-> FALSE, val |-> 0]
    ELSE IF s[1] \in {"+", "-"}
         THEN IF Len(s) = 1 THEN [ok |-> FALSE, val |-> 0]
              ELSE LET r == AtoiDigits(s, 2, 0)
                   IN  IF r.ok /\ s[1] = "-" THEN [ok |-> TRUE, val |-> 0 - r.val]
                       ELSE r
         ELSE AtoiDigits(s, 1, 0)

(* ------------------------------- nodes -------------------------------- *)

ValNode(v) == [kind |-> "Val", val |-> v, left |-> NIL, right |-> NIL]

AddNode(l, r) == [kind |-> "Add", val |-> 0, left |-> l, right |-> r]

MinNode(l, r) == [kind |-> "Min", val |-> 0, left |-> l, right |-> r]

PANIC == [ok |-> FALSE, val |-> 0]

\* Node.Interpret on reference n of heap h; a call through the nil interface
\* panics
RECURSIVE Interpret(_, _)
Interpret(h, n) ==
    IF n = NIL THEN PANIC
    ELSE IF h[n].kind = "Val" THEN [ok |-> TRUE, val |-> h[n].val]
    ELSE LET l == Interpret(h, h[n].left)
             r == Interpret(h, h[n].right)
         IN  IF ~l.ok \/ ~r.ok THEN PANIC
             ELSE IF h[n].kind = "Add" THEN [ok |-> TRUE, val |-> l.val + r.val]
             ELSE [ok |-> TRUE, val |-> l.val - r.val]

\* an Interpret that keeps its sum in the right operand of the root
InterpretEffectStoring(h, n) ==
    IF n = NIL \/ h[n].kind = "Val" \/ ~Interpret(h, n).ok THEN h
    ELSE [h EXCEPT ![h[n].right].val = Interpret(h, n).val]

\* what Interpret does to the nodes: no method assigns a field
InterpretEffect(h, n) == h

(* ------------------------------- parser ------------------------------- *)

VARIABLES
    input,    \* the argument of the latest Parse call
    exp,      \* Parser.exp
    index,    \* Parser.index
    prev,     \* Parser.prev
    heap,     \* the nodes allocated so far
    pc,       \* "idle", "parsing", "returned" or "panicked"
    calls,    \* Parse calls made on this Parser
    fed,      \* tokens handed to this Parser
    results   \* what the Interpret calls on the current root gave

\* the other packages of the repository; each is a program of its own
VARIABLES
    pkg,           \* the package whose program runs, "none" before one is picked
    api,           \* facade: the apiImpl NewAPI made
    ret,           \* facade: what api.Test() returned
    numbers,       \* iterator: the Numbers aggregate
    iters,         \* iterator: the NumbersIterators made from it
    game,          \* memento: the Game
    mementos,      \* memento: the gameMementos Save returned
    saved,         \* memento: hp and mp of the Game at each Save
    loaded,        \* memento: the memento just loaded, 0 once Play ran
    imageFactory,  \* flyweight: the ImageFlyweightFactory and its maps
    flyweights,    \* flyweight: the ImageFlyweights made
    viewers,       \* flyweight: the ImageViewers made
    manager,       \* prototype: the PrototypeManager and its prototypes
    type1s,        \* prototype: the Type1 objects
    dcopies,       \* prototype: the DCopy objects
    clones,        \* prototype: what manager.Get returned
    subject,       \* observer: the Subject
    notified,      \* observer: the Update calls of the latest UpdateContext
    updates,       \* observer: UpdateContext calls made
    today,         \* state: DayContext.today
    shown,         \* state: what the latest Today() printed
    nexts,         \* state: Next() calls made
    components,    \* composite: the components NewComponent made
    adds           \* composite: AddChild calls made

facadeVars == <<api, ret>>

iteratorVars == <<numbers, iters>>

mementoVars == <<game, mementos, saved, loaded>>

flyweightVars == <<imageFactory, flyweights, viewers>>

prototypeVars == <<manager, type1s, dcopies, clones>>

observerVars == <<subject, notified, updates>>

stateVars == <<today, shown, nexts>>

compositeVars == <<components, adds>>

patVars ==
    <<pkg, facadeVars, iteratorVars, mementoVars, flyweightVars,
      prototypeVars, observerVars, stateVars, compositeVars>>

interpVars == <<input, exp, index, prev, heap, pc, calls, fed, results>>

vars == <<interpVars, patVars>>

\* the file names the image viewers are made for
Filenames == {"image1.png", "image2.png", "image3.png"}

\* the names prototypes are registered under
ProtoNames == {"t1"}

\* nothing of the other packages is made yet
PatInit ==
    /\ pkg = "none"
    /\ api = [made |-> FALSE, A |-> "", B |-> ""]
    /\ ret = <<>>
    /\ numbers = [made |-> FALSE, start |-> 0, end |-> 0]
    /\ iters = <<>>
    /\ game = [made |-> FALSE, hp |-> 0, mp |-> 0]
    /\ mementos = <<>>
    /\ saved = <<>>
    /\ loaded = 0
    /\ imageFactory = [made |-> FALSE, maps |-> [f \in Filenames |-> NIL]]
    /\ flyweights = <<>>
    /\ viewers = <<>>
    /\ manager = [made |-> FALSE, prototypes |-> [n \in ProtoNames |-> NIL]]
    /\ type1s = <<>>
    /\ dcopies = <<>>
    /\ clones = <<>>
    /\ subject = [made |-> FALSE, observers |-> <<>>, context |-> ""]
    /\ notified = <<>>
    /\ updates = <<>>
    /\ today = ""
    /\ shown = ""
    /\ nexts = 0
    /\ components = <<>>
    /\ adds = 0

\* &Parser{}
Init ==
    /\ input = <<>>
    /\ exp = <<>>
    /\ index = 0
    /\ prev = NIL
    /\ heap = <<>>
    /\ pc = "idle"
    /\ calls = 0
    /\ fed = 0
    /\ results = <<>>
    /\ PatInit

\* Parser.Result
Result == prev

\* newValNode that hands out a value node built earlier for the same value
NewValNodeShared(e, i, h) ==
    IF i >= Len(e) THEN [ok |-> FALSE, index |-> i, heap |-> h, node |-> NIL]
    ELSE LET v == ValNode(Atoi(e[i + 1]).val)
             same == { n \in 1..Len(h) : h[n] = v }
         IN  IF same # {}
             THEN [ok |-> TRUE, index |-> i + 1, heap |-> h,
                   node |-> CHOOSE n \in same : \A m \in same : n <= m]
             ELSE [ok |-> TRUE, index |-> i + 1, heap |-> Append(h, v),
                   node |-> Len(h) + 1]

\* newValNode that forgets p.index++
NewValNodeNoAdvance(e, i, h) ==
    IF i >= Len(e) THEN [ok |-> FALSE, index |-> i, heap |-> h, node |-> NIL]
    ELSE [ok |-> TRUE,
          index |-> i,
          heap |-> Append(h, ValNode(Atoi(e[i + 1]).val)),
          node |-> Len(h) + 1]

\* newValNode on parser fields (e, i): the index expression panics past the end
NewValNode(e, i, h) ==
    IF i >= Len(e) THEN [ok |-> FALSE, index |-> i, heap |-> h, node |-> NIL]
    ELSE [ok |-> TRUE,
          index |-> i + 1,
          heap |-> Append(h, ValNode(Atoi(e[i + 1]).val)),
          node |-> Len(h) + 1]

\* newAddNode / newMinNode with the two operands exchanged
NewOpNodeSwapped(kind, e, i, p, h) ==
    LET r == NewValNode(e, i + 1, h)
    IN  IF ~r.ok THEN r
        ELSE [ok |-> TRUE,
              index |-> r.index,
              heap |-> Append(r.heap, IF kind = "Add" THEN AddNode(r.node, p)
                                                      ELSE MinNode(r.node, p)),
              node |-> Len(r.heap) + 1]

\* newAddNode / newMinNode taking the latest operand, not the subtree built so
\* far, as the left child
NewOpNodeLeftOperand(kind, e, i, p, h) ==
    LET r == NewValNode(e, i + 1, h)
        l == IF p # NIL /\ h[p].kind # "Val" THEN h[p].right ELSE p
    IN  IF ~r.ok THEN r
        ELSE [ok |-> TRUE,
              index |-> r.index,
              heap |-> Append(r.heap, IF kind = "Add" THEN AddNode(l, r.node)
                                                      ELSE MinNode(l, r.node)),
              node |-> Len(r.heap) + 1]

\* newAddNode / newMinNode: index++, then the literal with left = p.prev and
\* right = p.newValNode()
NewOpNode(kind, e, i, p, h) ==
    LET r == NewValNode(e, i + 1, h)
    IN  IF ~r.ok THEN r
        ELSE [ok |-> TRUE,
              index |-> r.index,
              heap |-> Append(r.heap, IF kind = "Add" THEN AddNode(p, r.node)
                                                      ELSE MinNode(p, r.node)),
              node |-> Len(r.heap) + 1]

\* the switch of Parse without its case "-"
ParseSwitchNoMin(e, i, p, h) ==
    IF e[i + 1] = <<"+">> THEN NewOpNode("Add", e, i, p, h)
    ELSE NewValNode(e, i, h)

\* a switch of Parse that looks at the first character of the token only
ParseSwitchByFirstChar(e, i, p, h) ==
    IF Len(e[i + 1]) >= 1 /\ e[i + 1][1] = "+" THEN NewOpNode("Add", e, i, p, h)
    ELSE IF Len(e[i + 1]) >= 1 /\ e[i + 1][1] = "-" THEN NewOpNode("Min", e, i, p, h)
    ELSE NewValNode(e, i, h)

\* the switch of Parse on the token at the cursor
ParseSwitch(e, i, p, h) ==
    IF e[i + 1] = <<"+">> THEN NewOpNode("Add", e, i, p, h)
    ELSE IF e[i + 1] = <<"-">> THEN NewOpNode("Min", e, i, p, h)
    ELSE NewValNode(e, i, h)

\* p.exp = strings.Split(exp, " ")
ParseCall(str) ==
    /\ input' = str
    /\ exp' = Split(str)
    /\ pc' = "parsing"
    /\ calls' = calls + 1
    /\ fed' = fed + Len(Split(str))
    /\ results' = <<>>
    /\ UNCHANGED <<index, prev, heap, patVars>>

\* a caller hands the Parser an expression: a new Parser, or one whose
\* earlier Parse call has returned (nothing recovers from a panic)
Parse ==
    /\ pc \in {"idle", "returned"}
    /\ calls < MaxCalls
    /\ \E str \in Inputs(MaxTokens - fed) : ParseCall(str)

\* one turn of the for loop with the cursor inside the tokens
ParseStep ==
    /\ pc = "parsing"
    /\ index < Len(exp)
    /\ LET r == ParseSwitch(exp, index, prev, heap)
       IN  /\ index' = r.index
           /\ heap' = r.heap
           /\ prev' = IF r.ok THEN r.node ELSE prev
           /\ pc' = IF r.ok THEN "parsing" ELSE "panicked"
    /\ UNCHANGED <<input, exp, calls, fed, results, patVars>>

\* if p.index >= len(p.exp) { return }
ParseReturn ==
    /\ pc = "parsing"
    /\ index >= Len(exp)
    /\ pc' = "returned"
    /\ UNCHANGED <<input, exp, index, prev, heap, calls, fed, results, patVars>>

\* p.Result().Interpret()
Evaluate ==
    /\ pc = "returned"
    /\ Len(results) < MaxEvals
    /\ results' = Append(results, Interpret(heap, Result))
    /\ heap' = InterpretEffect(heap, Result)
    /\ UNCHANGED <<input, exp, index, prev, pc, calls, fed, patVars>>

Next ==
    \/ Parse
    \/ ParseStep
    \/ ParseReturn
    \/ Evaluate

Spec == Init /\ [][Next]_vars

\* a Parse call that was made runs on: the loop takes its next turn, or
\* returns, whenever it can
FairSpec == Spec /\ WF_vars(ParseStep) /\ WF_vars(ParseReturn)

(* ---------------------- the grammar, read directly -------------------- *)

\* VALUE (" " OP " " VALUE)* read off the characters of a string, with the
\* value of its left-to-right fold and the number of its operators

RECURSIVE DigitRun(_, _)
DigitRun(s, i) ==
    IF i <= Len(s) /\ IsDigit(s[i]) THEN 1 + DigitRun(s, i + 1) ELSE 0

RECURSIVE Pow10(_)
Pow10(k) == IF k = 0 THEN 1 ELSE 10 * Pow10(k - 1)

RECURSIVE Positional(_, _, _)
Positional(s, from, n) ==
    IF n = 0 THEN 0
    ELSE DigitVal(s[from]) * Pow10(n - 1) + Positional(s, from + 1, n - 1)

SignLen(s, i) == IF i <= Len(s) /\ s[i] \in {"+", "-"} THEN 1 ELSE 0

LitOk(s, i) == DigitRun(s, i + SignLen(s, i)) >= 1

LitEnd(s, i) == i + SignLen(s, i) + DigitRun(s, i + SignLen(s, i))

LitVal(s, i) ==
    LET m == Positional(s, i + SignLen(s, i), DigitRun(s, i + SignLen(s, i)))
    IN  IF SignLen(s, i) = 1 /\ s[i] = "-" THEN 0 - m ELSE m

NotAChain == [ok |-> FALSE, val |-> 0, ops |-> 0]

RECURSIVE Chain(_, _, _, _)
Chain(s, i, acc, n) ==
    IF i > Len(s) THEN [ok |-> TRUE, val |-> acc, ops |-> n]
    ELSE IF /\ i + 3 <= Len(s)
            /\ s[i] = SP
            /\ s[i + 1] \in {"+", "-"}
            /\ s[i + 2] = SP
            /\ LitOk(s, i + 3)
         THEN Chain(s, LitEnd(s, i + 3),
                    IF s[i + 1] = "+" THEN acc + LitVal(s, i + 3)
                                      ELSE acc - LitVal(s, i + 3),
                    n + 1)
         ELSE NotAChain

LeftFold(s) ==
    IF LitOk(s, 1) THEN Chain(s, LitEnd(s, 1), LitVal(s, 1), 0) ELSE NotAChain

WellFormed(s) == LeftFold(s).ok

IsOp(tok) == tok \in { <<"+">>, <<"-">> }

IsIntLiteral(tok) == Len(tok) >= 1 /\ LitOk(tok, 1) /\ LitEnd(tok, 1) = Len(tok) + 1

\* the first Parse call on a newly made Parser
FirstCall == calls = 1

Finished == pc \in {"returned", "panicked"}

OpNodes == { n \in 1..Len(heap) : heap[n].kind \in {"Add", "Min"} }

RECURSIVE CountOps(_, _)
CountOps(h, n) ==
    IF n = NIL \/ h[n].kind = "Val" THEN 0
    ELSE 1 + CountOps(h, h[n].left) + CountOps(h, h[n].right)

RECURSIVE CountVals(_, _)
CountVals(h, n) ==
    IF n = NIL THEN 0
    ELSE IF h[n].kind = "Val" THEN 1
    ELSE CountVals(h, h[n].left) + CountVals(h, h[n].right)

RECURSIVE Reach(_, _)
Reach(h, n) ==
    IF n = NIL THEN {}
    ELSE {n} \cup Reach(h, h[n].left) \cup Reach(h, h[n].right)

(* ------------------------------- claims ------------------------------- *)

\* C1: for a well-formed input v1 op1 v2 ... opN v(N+1) handed to a new
\* Parser, Interpret on the tree Parse built gives the left-to-right fold
\* (...((v1 op1 v2) op2 v3) ... opN v(N+1)), v1 itself when N = 0.
C1_LeftFold ==
    (FirstCall /\ pc = "returned" /\ WellFormed(input))
        => \A k \in 1..Len(results) :
               results[k] = [ok |-> TRUE, val |-> LeftFold(input).val]

\* two subtractions in a row, where the grouping shows in the result
C1_Witness ==
    /\ FirstCall /\ pc = "returned" /\ WellFormed(input)
    /\ LeftFold(input).ops = 2
    /\ exp[2] = <<"-">> /\ exp[4] = <<"-">>
    /\ Len(results) = 1
    /\ results[1] = [ok |-> TRUE, val |-> LeftFold(input).val]

\* C2: for a well-formed input with N operators handed to a new Parser the
\* tree has N operator nodes and N+1 value nodes, the left child of each of
\* its operator nodes is a value node or an operator node built before it,
\* and the right child of every operator node ever built is a value node.
C2_TreeShape ==
    /\ \A n \in OpNodes :
           heap[n].right # NIL /\ heap[heap[n].right].kind = "Val"
    /\ (FirstCall /\ pc = "returned" /\ WellFormed(input))
           => /\ CountOps(heap, Result) = LeftFold(input).ops
              /\ CountVals(heap, Result) = LeftFold(input).ops + 1
              /\ \A n \in Reach(heap, Result) \cap OpNodes :
                     /\ heap[n].left # NIL
                     /\ heap[n].left < n
                     /\ heap[heap[n].left].kind \in {"Val", "Add", "Min"}

C2_Witness ==
    /\ FirstCall /\ pc = "returned" /\ WellFormed(input)
    /\ LeftFold(input).ops = 2
    /\ CountOps(heap, Result) = 2
    /\ CountVals(heap, Result) = 3
    /\ heap[heap[Result].left].kind = "Min"
    /\ heap[heap[Result].right].kind = "Val"

\* C3: evaluating a tree Parse has built never fails, for every operator
\* node has both children present.
C3_EvaluateNeverFails ==
    FirstCall
        => /\ \A n \in OpNodes : heap[n].left # NIL /\ heap[n].right # NIL
           /\ \A k \in 1..Len(results) : results[k].ok

\* C4: Parse of an input whose first token is an operator fails and builds
\* no operator node.
C4_LeadingOperatorFails ==
    (FirstCall /\ Finished /\ IsOp(exp[1]))
        => (pc = "panicked" /\ OpNodes = {})

\* C5: Parse of an input that ends on an operator, or has two operators in
\* a row, fails.
C5_MissingValueFails ==
    (/\ FirstCall /\ Finished
     /\ \/ IsOp(exp[Len(exp)])
        \/ \E i \in 1..(Len(exp) - 1) : IsOp(exp[i]) /\ IsOp(exp[i + 1]))
        => pc = "panicked"

\* C6: Parse of an input with two value tokens in a row fails and gives no
\* result.
C6_MissingOperatorFails ==
    (/\ FirstCall /\ Finished
     /\ \E i \in 1..(Len(exp) - 1) :
            IsIntLiteral(exp[i]) /\ IsIntLiteral(exp[i + 1]))
        => (pc = "panicked" /\ results = <<>>)

\* C7: Parse of the empty string fails; no node is built and no integer
\* comes out of it.
C7_EmptyInputFails ==
    (FirstCall /\ Finished /\ input = <<>>)
        => (pc = "panicked" /\ heap = <<>> /\ results = <<>>)

\* a token that is neither an integer literal nor "+" nor "-"
Malformed(tok) == tok # <<>> /\ ~IsIntLiteral(tok) /\ ~IsOp(tok)

\* C8: an input with a token that is neither an integer literal nor an
\* operator symbol fails; the token never becomes a value node.
C8_MalformedTokenFails ==
    (FirstCall /\ Finished /\ \E i \in 1..Len(exp) : Malformed(exp[i]))
        => pc = "panicked"

\* the tree under reference n, as a value
RECURSIVE TreeOf(_, _)
TreeOf(h, n) ==
    IF n = NIL THEN [kind |-> "Nil"]
    ELSE IF h[n].kind = "Val" THEN [kind |-> "Val", val |-> h[n].val]
    ELSE [kind |-> h[n].kind,
          left |-> TreeOf(h, h[n].left),
          right |-> TreeOf(h, h[n].right)]

\* the for loop of Parse run to its end from parser fields (e, i, p)
RECURSIVE RunParse(_, _, _, _)
RunParse(e, i, p, h) ==
    IF i >= Len(e) THEN [ok |-> TRUE, index |-> i, heap |-> h, node |-> p]
    ELSE LET r == ParseSwitch(e, i, p, h)
         IN  IF r.ok THEN RunParse(e, r.index, r.node, r.heap)
             ELSE [ok |-> FALSE, index |-> r.index, heap |-> h, node |-> p]

\* what a Parser that has parsed nothing makes of str
ParsedAlone(str) == RunParse(Split(str), 0, NIL, <<>>)

\* C9: a Parse call ends the same way, with the same tree and the same
\* result, whatever the same Parser has parsed before it.
C9_NoCarryOver ==
    Finished
        => LET alone == ParsedAlone(input)
           IN  /\ (pc = "returned") = alone.ok
               /\ TreeOf(heap, Result) = TreeOf(alone.heap, alone.node)
               /\ \A k \in 1..Len(results) :
                      results[k] = Interpret(alone.heap, alone.node)

\* C10: Interpret leaves every node and the root as they were, and a second
\* Interpret of the same root gives what the first gave.
C10_EvaluatePure ==
    [][Len(results') > Len(results)
           => /\ heap' = heap
              /\ prev' = prev
              /\ Len(results) >= 1
                     => results'[Len(results')] = results[Len(results)]]_vars

\* a tree with an operator node evaluated twice
C10_Witness ==
    /\ pc = "returned"
    /\ Result # NIL
    /\ heap[Result].kind = "Min"
    /\ Len(results) = 2
    /\ results[1].ok
    /\ results[2] = results[1]

\* the string with every run of spaces made one space
RECURSIVE Squeeze(_)
Squeeze(s) ==
    IF Len(s) <= 1 THEN s
    ELSE IF s[1] = SP /\ s[2] = SP THEN Squeeze(Tail(s))
    ELSE <<s[1]>> \o Squeeze(Tail(s))

\* tokens with spaces between them only, one gap at least wider than one
WideGaps(s) ==
    /\ Len(s) >= 1
    /\ s[1] # SP
    /\ s[Len(s)] # SP
    /\ \E i \in 1..(Len(s) - 1) : s[i] = SP /\ s[i + 1] = SP

\* C11: tokens separated by runs of several spaces give the tokens, the
\* tree and the result that the same tokens separated by single spaces give,
\* and no token is ever empty.
C11_SpaceRuns ==
    (FirstCall /\ WideGaps(input))
        => /\ \A i \in 1..Len(exp) : exp[i] # <<>>
           /\ exp = Split(Squeeze(input))
           /\ Finished
                  => LET single == ParsedAlone(Squeeze(input))
                     IN  /\ (pc = "returned") = single.ok
                         /\ TreeOf(heap, Result) = TreeOf(single.heap, single.node)

\* the values at the leaves under n, left to right
RECURSIVE Leaves(_, _)
Leaves(h, n) ==
    IF n = NIL THEN <<>>
    ELSE IF h[n].kind = "Val" THEN <<h[n].val>>
    ELSE Leaves(h, h[n].left) \o Leaves(h, h[n].right)

\* a literal written with a minus sign
NegativeLiteral(tok) == IsIntLiteral(tok) /\ tok[1] = "-"

\* C12: a token that is a signed integer literal is read as a value and not
\* as the operator "-": in a well-formed chain with such operands the
\* leaves are the values of the literals in order, the operator nodes are as
\* many as the tokens "+" and "-", and the result is the left fold.
C12_SignedLiteralIsValue ==
    (/\ FirstCall /\ pc = "returned" /\ WellFormed(input)
     /\ \E i \in 1..Len(exp) : NegativeLiteral(exp[i]))
        => /\ Leaves(heap, Result)
                  = [k \in 1..((Len(exp) + 1) \div 2) |-> LitVal(exp[2 * k - 1], 1)]
           /\ CountOps(heap, Result) = Cardinality({i \in 1..Len(exp) : IsOp(exp[i])})
           /\ \A k \in 1..Len(results) : results[k].ok /\ results[k].val = LeftFold(input).val

\* 1 - -2 gives 3
C12_Witness ==
    /\ FirstCall /\ pc = "returned"
    /\ exp = << <<"1">>, <<"-">>, <<"-", "2">> >>
    /\ Leaves(heap, Result) = <<1, -2>>
    /\ heap[Result].kind = "Min"
    /\ results = << [ok |-> TRUE, val |-> 3] >>

\* C20: Parse terminates on every input: each turn of its loop moves the
\* cursor on by at least one token, the loop exits once the cursor has
\* reached the number of tokens, and so a Parse call that was made ends (by
\* returning or by a panic).
C20_ParseTerminates ==
    /\ [][(pc = "parsing" /\ index < Len(exp)) => index' >= index + 1]_vars
    /\ [][(pc = "parsing" /\ index >= Len(exp)) => pc' = "returned"]_vars
    /\ (pc = "parsing") ~> Finished

\* the loop took five turns over five tokens and returned
C20_Witness ==
    /\ FirstCall
    /\ pc = "returned"
    /\ Len(exp) = MaxTokens
    /\ Len(heap) = MaxTokens
    /\ index = Len(exp)

\* the operator nodes met going down from n through left children
RECURSIVE LeftDepth(_, _)
LeftDepth(h, n) ==
    IF n = NIL \/ h[n].kind = "Val" THEN 0 ELSE 1 + LeftDepth(h, h[n].left)

\* C21: the operator node a step builds has as its left child the subtree
\* that was current just before the step, and becomes the current subtree;
\* so for a well-formed input with N operators handed to a new Parser the
\* root is the node of the last operator and the tree is a chain of N
\* operator nodes through left children.
C21_FoldsIntoLeft ==
    /\ [][(Len(heap') > Len(heap) /\ heap'[Len(heap')].kind \in {"Add", "Min"})
              => /\ heap'[Len(heap')].left = prev
                 /\ prev' = Len(heap')]_vars
    /\ []((FirstCall /\ pc = "returned" /\ WellFormed(input))
              => /\ LeftDepth(heap, Result) = LeftFold(input).ops
                 /\ LeftFold(input).ops >= 1
                        => /\ Result = Len(heap)
                           /\ heap[Result].kind
                                  = (IF exp[Len(exp) - 1] = <<"+">> THEN "Add" ELSE "Min"))

\* 1 - 2 + 1: the root is the Add, its left child the Min over two values
C21_Witness ==
    /\ FirstCall /\ pc = "returned" /\ WellFormed(input)
    /\ LeftFold(input).ops = 2
    /\ exp[2] = <<"-">> /\ exp[4] = <<"+">>
    /\ heap[Result].kind = "Add"
    /\ heap[heap[Result].left].kind = "Min"
    /\ LeftDepth(heap, Result) = 2

\* the children of node n
Children(h, n) == {h[n].left, h[n].right} \ {NIL}

\* the nodes reached from those of set S in at most k steps down
RECURSIVE Below(_, _, _)
Below(h, S, k) ==
    IF k = 0 \/ S = {} THEN {}
    ELSE LET next == UNION { Children(h, n) : n \in S }
         IN  next \cup Below(h, next, k - 1)

\* C22: at every point of parsing the nodes built form trees: no node is the
\* child of two parents or twice the child of one, and no node is reached
\* from itself.
C22_IsTree ==
    /\ \A n, m \in 1..Len(heap) :
           n # m => Children(heap, n) \cap Children(heap, m) = {}
    /\ \A n \in 1..Len(heap) :
           /\ heap[n].left # NIL => heap[n].left # heap[n].right
           /\ n \notin Below(heap, {n}, Len(heap))

\* two operator nodes over three value nodes of the same value
C22_Witness ==
    /\ pc = "returned"
    /\ Len(heap) = 5
    /\ Cardinality(OpNodes) = 2
    /\ \A n \in 1..Len(heap) : heap[n].kind = "Val" => heap[n].val = 1
    /\ Below(heap, {Result}, Len(heap)) = 1..4

\* the indices at which a turn of the loop at cursor i evaluates p.exp[...]:
\* the switch at i, then newValNode at i, or at i + 1 after the p.index++ of
\* newAddNode / newMinNode
ReadIndices(e, i) == IF IsOp(e[i + 1]) THEN {i, i + 1} ELSE {i}

\* C23: every token read during Parse uses an index i with
\* 0 <= i < number of tokens; no read is made past the end, so no Parse ends
\* on one.
C23_ReadsInRange ==
    /\ (pc = "parsing" /\ index < Len(exp))
           => \A i \in ReadIndices(exp, index) : 0 <= i /\ i < Len(exp)
    /\ pc = "panicked" => index < Len(exp)

(* ---------------------------- the packages ---------------------------- *)

Packages ==
    {"facade", "iterator", "memento", "flyweight", "prototype", "observer", "state",
     "composite"}

\* go test of one package: the programs share nothing
RunPackage ==
    /\ pkg = "none"
    /\ \E p \in Packages : pkg' = p
    /\ UNCHANGED <<interpVars, facadeVars, iteratorVars, mementoVars,
                   flyweightVars, prototypeVars, observerVars, stateVars,
                   compositeVars>>

(* ------------------------------- facade ------------------------------- *)

\* fmt.Sprintf for a format cut into its literal pieces and its %s verbs; the
\* result is the sequence of the pieces written
RECURSIVE Sprintf(_, _)
Sprintf(format, args) ==
    IF format = <<>> THEN <<>>
    ELSE IF format[1] = "%s"
         THEN <<args[1]>> \o Sprintf(Tail(format), Tail(args))
         ELSE <<format[1]>> \o Sprintf(Tail(format), args)

\* aModuleImpl.TestA
TestA(a) == "A module running"

\* bModuleImpl.TestB
TestB(b) == "B module running"

\* the format of apiImpl.Test
TestFormat == <<"%s", " \t ", "%s">>

\* var expect of the package's test
expect == <<"A module running", "\n", "B module running">>

facadeFrame ==
    <<interpVars, pkg, iteratorVars, mementoVars, flyweightVars,
      prototypeVars, observerVars, stateVars,
      compositeVars>>

NewAPI ==
    /\ pkg = "facade"
    /\ ~api.made
    /\ api' = [made |-> TRUE, A |-> "aModuleImpl", B |-> "bModuleImpl"]
    /\ UNCHANGED <<ret, facadeFrame>>

\* apiImpl.Test
Test ==
    /\ pkg = "facade"
    /\ api.made
    /\ ret' = Sprintf(TestFormat, <<TestA(api.A), TestB(api.B)>>)
    /\ UNCHANGED <<api, facadeFrame>>

\* C13: the facade's Test() returns the result of module A, one newline,
\* then the result of module B.
C13_FacadeTest ==
    ret # <<>> => ret = expect

(* ------------------------------ iterator ------------------------------ *)

\* the largest number a range starts or ends at
MaxNumber == 3

\* iterators made from one Numbers
MaxIters == 2

iteratorFrame ==
    <<interpVars, pkg, facadeVars, mementoVars, flyweightVars,
      prototypeVars, observerVars, stateVars,
      compositeVars>>

\* &Numbers{start, end}
NewNumbers ==
    /\ pkg = "iterator"
    /\ ~numbers.made
    /\ \E s \in 0..MaxNumber, e \in 0..MaxNumber :
           numbers' = [made |-> TRUE, start |-> s, end |-> e]
    /\ UNCHANGED <<iters, iteratorFrame>>

\* Numbers.Iterator; yield is what Next has returned since the iterator was
\* made or First was last called, reset tells that First was called and at
\* where the cursor was when it was last called
Iterator ==
    /\ pkg = "iterator"
    /\ numbers.made
    /\ Len(iters) < MaxIters
    /\ iters' = Append(iters, [next |-> numbers.start, yield |-> <<>>,
                               reset |-> FALSE, at |-> numbers.start])
    /\ UNCHANGED <<numbers, iteratorFrame>>

\* an IsDone that stops at the last number
IsDoneAtEnd(it) == it.next >= numbers.end

\* NumbersIterator.IsDone
IsDone(it) == it.next > numbers.end

\* a First that leaves the cursor where it is
FirstKeepsCursor(i) ==
    /\ pkg = "iterator"
    /\ iters' = [iters EXCEPT ![i] = [next |-> iters[i].next, yield |-> <<>>,
                                      reset |-> TRUE, at |-> iters[i].next]]
    /\ UNCHANGED <<numbers, iteratorFrame>>

\* NumbersIterator.First
First(i) ==
    /\ pkg = "iterator"
    /\ iters' = [iters EXCEPT ![i] = [next |-> numbers.start, yield |-> <<>>,
                                      reset |-> TRUE, at |-> iters[i].next]]
    /\ UNCHANGED <<numbers, iteratorFrame>>

\* a Next over a cursor that all iterators of the Numbers share
NextSharedCursor(i) ==
    /\ pkg = "iterator"
    /\ iters' = IF ~IsDone(iters[i])
                THEN [j \in 1..Len(iters) |->
                         IF j = i
                         THEN [iters[j] EXCEPT !.next = iters[i].next + 1,
                                               !.yield = Append(@, iters[i].next)]
                         ELSE [iters[j] EXCEPT !.next = iters[i].next + 1]]
                ELSE iters
    /\ UNCHANGED <<numbers, iteratorFrame>>

\* NumbersIterator.Next: the number at the cursor, or nil when done
NumbersIteratorNext(i) ==
    /\ pkg = "iterator"
    /\ iters' = IF ~IsDone(iters[i])
                THEN [iters EXCEPT ![i].next = @ + 1,
                                   ![i].yield = Append(@, iters[i].next)]
                ELSE iters
    /\ UNCHANGED <<numbers, iteratorFrame>>

IteratorFirst == \E i \in 1..Len(iters) : First(i)

IteratorNext == \E i \in 1..Len(iters) : NumbersIteratorNext(i)

\* how many numbers [start, end] holds
RangeSize == IF numbers.start > numbers.end THEN 0 ELSE numbers.end - numbers.start + 1

\* C14: First() and then Next() until IsDone() yields start, start+1, ...,
\* end in ascending order, each once; with start > end the iterator is done
\* at once and yields nothing.
C14_Traversal ==
    \A i \in 1..Len(iters) :
        /\ \A k \in 1..Len(iters[i].yield) : iters[i].yield[k] = numbers.start + k - 1
        /\ Len(iters[i].yield) <= RangeSize
        /\ IsDone(iters[i]) <=> Len(iters[i].yield) = RangeSize

C14_Witness ==
    \E i \in 1..Len(iters) :
        /\ iters[i].reset
        /\ IsDone(iters[i])
        /\ iters[i].yield = <<1, 2, 3>>

\* start, start + 1, ..., end
FullRange == [k \in 1..RangeSize |-> numbers.start + k - 1]

\* C24: First() puts the iterator at the start of the range wherever it was:
\* after any Next() calls, First() and a traversal to the end yield the whole
\* of start..end again.
C24_FirstResets ==
    \A i \in 1..Len(iters) :
        iters[i].reset
            => /\ iters[i].next = numbers.start + Len(iters[i].yield)
               /\ IsDone(iters[i]) => iters[i].yield = FullRange

\* First called in the middle of 1..3, then the traversal to the end
C24_Witness ==
    \E i \in 1..Len(iters) :
        /\ iters[i].reset
        /\ numbers.start = 1 /\ numbers.end = 3
        /\ iters[i].at = 2
        /\ IsDone(iters[i])
        /\ iters[i].yield = <<1, 2, 3>>

\* C25: iterators made from one Numbers are independent: a Next() or First()
\* on one changes neither the position nor the numbers yielded by another,
\* and none changes start and end of the Numbers.
C25_IteratorsIndependent ==
    [][/\ numbers.made => numbers' = numbers
       /\ \A i, j \in 1..Len(iters) :
              (i # j /\ iters'[i] # iters[i]) => iters'[j] = iters[j]]_vars

\* two iterators over 1..3, one done after a First, the other in the middle
C25_Witness ==
    /\ Len(iters) = 2
    /\ numbers.start = 1 /\ numbers.end = 3
    /\ iters[1].reset /\ iters[1].yield = <<1, 2, 3>>
    /\ ~iters[2].reset /\ iters[2].yield = <<1>> /\ iters[2].next = 2

(* ------------------------------- memento ------------------------------ *)

\* the hp and mp a Game starts with
MaxPoints == 2

\* mementos saved of one Game
MaxSaves == 2

\* the mpDelta and hpDelta given to Play
Deltas == {-1, 0}

mementoFrame ==
    <<interpVars, pkg, facadeVars, iteratorVars, flyweightVars,
      prototypeVars, observerVars, stateVars,
      compositeVars>>

\* &Game{hp, mp}
NewGame ==
    /\ pkg = "memento"
    /\ ~game.made
    /\ game' = [made |-> TRUE, hp |-> MaxPoints, mp |-> MaxPoints]
    /\ UNCHANGED <<mementos, saved, loaded, mementoFrame>>

\* a Play on a Game whose mementos point at the Game's own hp and mp
PlayThroughMementos(mpDelta, hpDelta) ==
    /\ game.mp + mpDelta >= 0
    /\ game.hp + hpDelta >= 0
    /\ game' = [game EXCEPT !.mp = @ + mpDelta, !.hp = @ + hpDelta]
    /\ loaded' = 0
    /\ mementos' = [m \in 1..Len(mementos) |->
                        [hp |-> game.hp + hpDelta, mp |-> game.mp + mpDelta]]
    /\ UNCHANGED <<saved, mementoFrame>>

\* Game.Play, while hp and mp last
Play(mpDelta, hpDelta) ==
    /\ game.mp + mpDelta >= 0
    /\ game.hp + hpDelta >= 0
    /\ game' = [game EXCEPT !.mp = @ + mpDelta, !.hp = @ + hpDelta]
    /\ loaded' = 0
    /\ UNCHANGED <<mementos, saved, mementoFrame>>

GamePlay ==
    /\ pkg = "memento"
    /\ game.made
    /\ \E mpDelta \in Deltas, hpDelta \in Deltas : Play(mpDelta, hpDelta)

\* Game.Save
Save ==
    /\ pkg = "memento"
    /\ game.made
    /\ Len(mementos) < MaxSaves
    /\ mementos' = Append(mementos, [hp |-> game.hp, mp |-> game.mp])
    /\ saved' = Append(saved, [hp |-> game.hp, mp |-> game.mp])
    /\ UNCHANGED <<game, loaded, mementoFrame>>

\* a Load that restores mp only
LoadFieldsMpOnly(g, gm) == [g EXCEPT !.mp = gm.mp]

\* the assignments of Game.Load
LoadFields(g, gm) == [g EXCEPT !.mp = gm.mp, !.hp = gm.hp]

\* Game.Load
Load(m) ==
    /\ game' = LoadFields(game, mementos[m])
    /\ loaded' = m
    /\ UNCHANGED <<mementos, saved, mementoFrame>>

GameLoad ==
    /\ pkg = "memento"
    /\ game.made
    /\ \E m \in 1..Len(mementos) : Load(m)

\* C15: after m := Save() and any Play calls, Load(m) puts hp and mp back
\* to what they were when Save was called.
C15_LoadRestores ==
    loaded # 0 => (game.hp = saved[loaded].hp /\ game.mp = saved[loaded].mp)

\* the first memento loaded after the Game was played on and saved again
C15_Witness ==
    /\ loaded = 1
    /\ Len(saved) = 2
    /\ saved[2].hp < saved[1].hp
    /\ saved[2].mp = saved[1].mp
    /\ game.hp = saved[1].hp
    /\ game.mp = saved[1].mp

\* C26: a memento Save() returned is never changed: Play and Load calls
\* made after it leave its hp and mp as saved, so Load(m) gives the saved
\* state whenever and however often it is called.
C26_MementoImmutable ==
    /\ [](mementos = saved)
    /\ [][\A m \in 1..Len(mementos) : mementos'[m] = mementos[m]]_vars
    /\ [](loaded # 0 => (game.hp = mementos[loaded].hp /\ game.mp = mementos[loaded].mp))

\* the second of two mementos loaded, the first still holding the points
\* the Game started with
C26_Witness ==
    /\ Len(mementos) = 2
    /\ loaded = 2
    /\ mementos[1] = [hp |-> MaxPoints, mp |-> MaxPoints]
    /\ mementos[2] = [hp |-> 0, mp |-> 0]
    /\ game.hp = 0 /\ game.mp = 0

(* ------------------------------ flyweight ----------------------------- *)

\* image viewers made
MaxViewers == 4

flyweightFrame ==
    <<interpVars, pkg, facadeVars, iteratorVars, mementoVars,
      prototypeVars, observerVars, stateVars,
      compositeVars>>

\* NewImageFlyweight: the data is fmt.Sprintf("image data %s", filename)
NewImageFlyweight(filename) ==
    [data |-> Sprintf(<<"image data ", "%s">>, <<filename>>)]

\* a Get that does not put the new flyweight into maps
GetWithoutStore(m, fws, filename) ==
    IF m[filename] = NIL
    THEN [maps |-> m,
          flyweights |-> Append(fws, NewImageFlyweight(filename)),
          image |-> Len(fws) + 1]
    ELSE [maps |-> m, flyweights |-> fws, image |-> m[filename]]

\* ImageFlyweightFactory.Get on maps m, with fws the flyweights made so far
Get(m, fws, filename) ==
    IF m[filename] = NIL
    THEN [maps |-> [m EXCEPT ![filename] = Len(fws) + 1],
          flyweights |-> Append(fws, NewImageFlyweight(filename)),
          image |-> Len(fws) + 1]
    ELSE [maps |-> m, flyweights |-> fws, image |-> m[filename]]

\* GetImageFlyweightFactory: the factory is made on the first call, with an
\* empty map
GetImageFlyweightFactory ==
    IF imageFactory.made THEN imageFactory
    ELSE [made |-> TRUE, maps |-> [f \in Filenames |-> NIL]]

\* NewImageViewer(filename)
NewImageViewer ==
    /\ pkg = "flyweight"
    /\ Len(viewers) < MaxViewers
    /\ \E filename \in Filenames :
           LET got == Get(GetImageFlyweightFactory.maps, flyweights, filename)
           IN  /\ imageFactory' = [made |-> TRUE, maps |-> got.maps]
               /\ flyweights' = got.flyweights
               /\ viewers' = Append(viewers, [filename |-> filename, image |-> got.image])
    /\ UNCHANGED flyweightFrame

\* C16: there is at most one ImageFlyweight per filename, two Get calls
\* with the same filename return the same object, and a flyweight is made
\* on the first Get of its filename only.
C16_OnePerFilename ==
    /\ \A i, j \in 1..Len(flyweights) :
           flyweights[i].data = flyweights[j].data => i = j
    /\ \A v, w \in 1..Len(viewers) :
           viewers[v].filename = viewers[w].filename
               => viewers[v].image = viewers[w].image
    /\ \A v \in 1..Len(viewers) :
           flyweights[viewers[v].image].data = <<"image data ", viewers[v].filename>>
    /\ Len(flyweights) = Cardinality({viewers[v].filename : v \in 1..Len(viewers)})

\* a filename asked for twice, with another one in between
C16_Witness ==
    /\ Len(viewers) = 3
    /\ viewers[1].filename = viewers[3].filename
    /\ viewers[1].filename # viewers[2].filename
    /\ viewers[1].image = viewers[3].image
    /\ Len(flyweights) = 2

(* ------------------------------ prototype ----------------------------- *)

\* clones taken from the manager
MaxClones == 2

prototypeFrame ==
    <<interpVars, pkg, facadeVars, iteratorVars, mementoVars,
      flyweightVars, observerVars, stateVars,
      compositeVars>>

\* func init of the test: manager = NewPrototypeManager(), then
\* manager.Set("t1", &Type1{name: "type1", D: &DCopy{dDCopy: "d"}})
PrototypeInit ==
    /\ pkg = "prototype"
    /\ ~manager.made
    /\ dcopies' = <<[dDCopy |-> "d"]>>
    /\ type1s' = <<[name |-> "type1", D |-> 1]>>
    /\ manager' = [made |-> TRUE, prototypes |-> [n \in ProtoNames |-> 1]]
    /\ UNCHANGED <<clones, prototypeFrame>>

\* Type1.Clone: tc := *t; return &tc copies the fields, the pointer D as it is
Clone(t) == [name |-> t.name, D |-> t.D]

\* PrototypeManager.Get
ManagerGet ==
    /\ pkg = "prototype"
    /\ manager.made
    /\ Len(clones) < MaxClones
    /\ \E n \in ProtoNames :
           /\ type1s' = Append(type1s, Clone(type1s[manager.prototypes[n]]))
           /\ clones' = Append(clones, Len(type1s) + 1)
    /\ UNCHANGED <<manager, dcopies, prototypeFrame>>

\* c.name = "c" on a clone c
WriteName ==
    /\ pkg = "prototype"
    /\ \E k \in 1..Len(clones) :
           type1s' = [type1s EXCEPT ![clones[k]].name = "c"]
    /\ UNCHANGED <<manager, dcopies, clones, prototypeFrame>>

\* c.D.dDCopy = "c" on a clone c
WriteD ==
    /\ pkg = "prototype"
    /\ \E k \in 1..Len(clones) :
           dcopies' = [dcopies EXCEPT ![type1s[clones[k]].D].dDCopy = "c"]
    /\ UNCHANGED <<manager, type1s, clones, prototypeFrame>>

\* name and D.dDCopy as seen through the Type1 at reference r
Seen(r) == [name |-> type1s[r].name, dDCopy |-> dcopies[type1s[r].D].dDCopy]

\* C17: changing a clone got from the manager, the state behind its
\* reference field D included, leaves the registered prototype as it was
\* registered, so a later Get gives the registered values.
C17_PrototypeProtected ==
    manager.made
        => \A n \in ProtoNames :
               Seen(manager.prototypes[n]) = [name |-> "type1", dDCopy |-> "d"]

(* ------------------------------ observer ------------------------------ *)

\* observers attached to the subject, UpdateContext calls made
MaxObservers == 3
MaxUpdates == 2

\* the readers a client makes with NewReader, and the contexts it publishes
Readers == {"reader1", "reader2", "reader3"}
Contexts == {"observer mode", "state mode"}

observerFrame ==
    <<interpVars, pkg, facadeVars, iteratorVars, mementoVars,
      flyweightVars, prototypeVars, stateVars,
      compositeVars>>

NewSubject ==
    /\ pkg = "observer"
    /\ ~subject.made
    /\ subject' = [made |-> TRUE, observers |-> <<>>, context |-> ""]
    /\ UNCHANGED <<notified, updates, observerFrame>>

\* Subject.Attach: append, whether or not o is attached already
Attach ==
    /\ pkg = "observer"
    /\ subject.made
    /\ Len(subject.observers) < MaxObservers
    /\ \E o \in Readers :
           subject' = [subject EXCEPT !.observers = Append(@, o)]
    /\ UNCHANGED <<notified, updates, observerFrame>>

\* Reader.Update prints "<name> receive <context>", the context read from
\* the subject at the time of the call
Update(r, s) == [name |-> r, context |-> s.context]

\* Subject.notify, the Updates in the wrong order
notifyReversed(s) ==
    [i \in 1..Len(s.observers) |->
        Update(s.observers[Len(s.observers) + 1 - i], s)]

\* Subject.notify: the Updates it makes, in the order it makes them
notify(s) ==
    [i \in 1..Len(s.observers) |-> Update(s.observers[i], s)]

\* Subject.UpdateContext; notified holds the Updates of the latest call,
\* updates the contexts passed so far
UpdateContext ==
    /\ pkg = "observer"
    /\ subject.made
    /\ Len(updates) < MaxUpdates
    /\ \E context \in Contexts :
           LET s == [subject EXCEPT !.context = context]
           IN  /\ subject' = s
               /\ notified' = notify(s)
               /\ updates' = Append(updates, context)
    /\ UNCHANGED observerFrame

Last(s) == s[Len(s)]

\* C18 as stated: an UpdateContext(c) call updates every attached observer
\* exactly once, each seeing c.
C18_ExactlyOncePerObserver ==
    updates # <<>>
        => /\ \A i \in 1..Len(notified) : notified[i].context = Last(updates)
           /\ \A i, j \in 1..Len(notified) :
                  notified[i].name = notified[j].name => i = j

\* C18 as amended: an UpdateContext(c) call stores c and then makes one
\* Update per Attach call made so far, in the order of the Attach calls, each
\* seeing c; an observer attached twice is updated twice.
C18_OncePerAttach ==
    [][updates' # updates
          => /\ subject'.context = Last(updates')
             /\ notified' = [i \in 1..Len(subject.observers) |->
                                [name |-> subject.observers[i],
                                 context |-> Last(updates')]]]_vars

\* a second UpdateContext with a new context reached three attachments, one
\* observer attached twice
C18_Witness ==
    /\ Len(updates) = 2
    /\ updates[1] # updates[2]
    /\ Len(notified) = 3
    /\ notified[1].name = notified[3].name
    /\ notified[1].name # notified[2].name
    /\ \A i \in 1..3 : notified[i].context = updates[2]

(* -------------------------------- state ------------------------------- *)

\* Next calls on the context (the client loop makes 8)
MaxNexts == 8

stateFrame ==
    <<interpVars, pkg, facadeVars, iteratorVars, mementoVars,
      flyweightVars, prototypeVars, observerVars,
      compositeVars>>

\* the concrete states, in the order the package lists them
Days ==
    <<"Sunday", "Monday", "Tuesday", "Wednesday", "Thursday", "Friday",
      "Saturday">>

NewDayContext ==
    /\ pkg = "state"
    /\ today = ""
    /\ today' = "Sunday"
    /\ UNCHANGED <<shown, nexts, stateFrame>>

\* Sunday.Next: ctx.today = &Monday{}
SundayNext == "Monday"

\* Monday.Next, leaving the context where it is
MondayNextStays == "Monday"

\* Monday.Next: ctx.today = &Tuesday{}
MondayNext == "Tuesday"

\* Next of the five states whose code the package only lists
TuesdayNext == "Wednesday"
WednesdayNext == "Thursday"
ThursdayNext == "Friday"
FridayNext == "Saturday"
SaturdayNext == "Sunday"

\* d.today.Next(d), dispatched on the current state
WeekNext(day) ==
    CASE day = "Sunday" -> SundayNext
      [] day = "Monday" -> MondayNext
      [] day = "Tuesday" -> TuesdayNext
      [] day = "Wednesday" -> WednesdayNext
      [] day = "Thursday" -> ThursdayNext
      [] day = "Friday" -> FridayNext
      [] day = "Saturday" -> SaturdayNext

\* DayContext.Next
DayContextNext ==
    /\ pkg = "state"
    /\ today # ""
    /\ nexts < MaxNexts
    /\ today' = WeekNext(today)
    /\ nexts' = nexts + 1
    /\ UNCHANGED <<shown, stateFrame>>

\* DayContext.Today: the current state prints its name
DayContextToday ==
    /\ pkg = "state"
    /\ today # ""
    /\ shown' = today
    /\ UNCHANGED <<today, nexts, stateFrame>>

MaxComponents == 3
MaxAdds == 3

\* const ( LeafNode = iota; CompositeNode )
LeafNode == 0
CompositeNode == 1

\* the names the components are given, in the order they are made
ComponentNames == <<"root", "child1", "child2", "child3">>

compositeFrame ==
    <<interpVars, pkg, facadeVars, iteratorVars, mementoVars,
      flyweightVars, prototypeVars, observerVars, stateVars>>

\* NewComponent(kind, name): NewLeaf or NewComposite, then SetName
NewComponent ==
    /\ pkg = "composite"
    /\ Len(components) < MaxComponents
    /\ \E kind \in {LeafNode, CompositeNode} :
           components' = Append(components,
                                [kind |-> kind,
                                 name |-> ComponentNames[Len(components) + 1],
                                 parent |-> NIL,
                                 childs |-> <<>>])
    /\ UNCHANGED <<adds, compositeFrame>>

\* component.AddChild, which a Leaf inherits: empty
ComponentAddChild(cs, c, child) == cs

\* Composite.AddChild: child.SetParent(c), then append to c.childs
CompositeAddChild(cs, c, child) ==
    LET set == [cs EXCEPT ![child].parent = c]
    IN  [set EXCEPT ![c].childs = Append(@, child)]

\* c.AddChild(child) through the Component interface
AddChild ==
    /\ pkg = "composite"
    /\ adds < MaxAdds
    /\ \E c \in 1..Len(components), child \in 1..Len(components) :
           components' = IF components[c].kind = CompositeNode
                         THEN CompositeAddChild(components, c, child)
                         ELSE ComponentAddChild(components, c, child)
    /\ adds' = adds + 1
    /\ UNCHANGED compositeFrame

\* how often child is in the child list of c
Times(c, child) ==
    Cardinality({ k \in 1..Len(components[c].childs) : components[c].childs[k] = child })

\* C27: after any AddChild calls the links agree: a component is in the
\* child list of a composite exactly when that composite is its Parent(), and
\* it is there once; a Leaf has no children.
C27_LinksAgree ==
    \A c \in 1..Len(components), child \in 1..Len(components) :
        /\ Times(c, child) >= 1 <=> components[child].parent = c
        /\ Times(c, child) <= 1
        /\ components[c].kind = LeafNode => components[c].childs = <<>>

(* ------------------------ the packages together ----------------------- *)

PatNext ==
    \/ RunPackage
    \/ NewAPI
    \/ Test
    \/ NewNumbers
    \/ Iterator
    \/ IteratorFirst
    \/ IteratorNext
    \/ NewGame
    \/ GamePlay
    \/ Save
    \/ GameLoad
    \/ NewImageViewer
    \/ PrototypeInit
    \/ ManagerGet
    \/ WriteName
    \/ WriteD
    \/ NewSubject
    \/ Attach
    \/ UpdateContext
    \/ NewDayContext
    \/ DayContextNext
    \/ DayContextToday
    \/ NewComponent
    \/ AddChild

SpecPatterns == Init /\ [][PatNext]_vars

====
